---- MODULE Spec2Model ----
(***************************************************************************)
(* A model of SimpleVector<Type> (simple_vector.h) and of the buffer owner *)
(* ArrayPtr<Type> (array_ptr.h).                                           *)
(*                                                                         *)
(* The heap is a finite array of blocks.  A block is either free or live;  *)
(* a live block holds the slots of one `new Type[n]`.  A raw pointer is a  *)
(* block number, 0 being nullptr.  Every vector and every ArrayPtr holds a *)
(* raw pointer, so that double ownership, double deletion and leaks are    *)
(* states of the model and not excluded by its shape.                      *)
(***************************************************************************)
EXTENDS Integers, Sequences, FiniteSets, TLC

VARIABLES
    elemKind,   \* the element type the templates are instantiated with
    mem,        \* the heap: [heap: block -> [st, data], fault: set of memory errors]
    vec,        \* the SimpleVector objects: name -> [alive, size, cap, items]
    ptr,        \* free-standing ArrayPtr objects: name -> [alive, raw]
    raw,        \* raw pointers handed out by ArrayPtr::Release and held by the caller
    hist,       \* per vector: the values pushed since default construction
    last,       \* the last operation: what was called, on what, and what it returned
    watch       \* the calls `last` records: pairs <<operation, exception>>

vars == <<elemKind, mem, vec, ptr, raw, hist, last, watch>>

-----------------------------------------------------------------------------
(* Bounds of the model *)

\* largest capacity a vector reaches in the two-vector specification
MaxCapPair == 2
\* largest capacity a vector reaches in the one-vector specification
MaxCap == 4
\* number of blocks of the heap; an allocation fails when none is free
NBlocks == 3

Vecs == {"a", "b"}
Ptrs == {"p", "q"}
Values == {0, 1}
\* the sizes free-standing buffer owners are constructed with
PtrSizes == {0, 1}

\* size_t: the unsigned type of sizes and capacities, here of 8 bits
SizeBits == 8
SizeMax == 2 ^ SizeBits

\* Type(): the value-initialised element
Default == 0
\* the content of a slot of `new Type[n]` for a trivial Type: indeterminate
Indet == 2

Blocks == 1..NBlocks
Null == 0

-----------------------------------------------------------------------------
(* The heap *)

FreeBlock == [st |-> "free", data |-> <<>>]

\* what `new Type[n]` leaves in each slot: default-constructed elements for a
\* class type, indeterminate values for a trivial one
FreshValue == IF elemKind = "class" THEN Default ELSE Indet

\* what a moved-from element holds: unchanged for a trivial type, the empty
\* (default) value for a class type whose move leaves the source empty
MovedFrom(x) == IF elemKind = "class" THEN Default ELSE x

HasFree(m) == \E p \in Blocks : m.heap[p].st = "free"

FreeId(m) == CHOOSE p \in Blocks :
                 /\ m.heap[p].st = "free"
                 /\ \A q \in Blocks : m.heap[q].st = "free" => p <= q

\* new Type[n]
NewArray(m, n) ==
    [m EXCEPT !.heap[FreeId(m)] =
        [st |-> "live", data |-> [i \in 1..n |-> FreshValue]]]

\* delete[] p
DeleteArray(m, p) ==
    IF p = Null THEN m
    ELSE IF m.heap[p].st = "live" THEN [m EXCEPT !.heap[p] = FreeBlock]
    ELSE [m EXCEPT !.fault = @ \cup {"double_delete"}]

InBlock(m, p, i) ==
    /\ p # Null
    /\ m.heap[p].st = "live"
    /\ i >= 0
    /\ i < Len(m.heap[p].data)

\* raw_ptr_[index], read
Load(m, p, i) == IF InBlock(m, p, i) THEN m.heap[p].data[i + 1] ELSE Indet

\* raw_ptr_[index] = x
Store(m, p, i, x) ==
    IF InBlock(m, p, i) THEN [m EXCEPT !.heap[p].data[i + 1] = x]
    ELSE [m EXCEPT !.fault = @ \cup {"bad_access"}]

\* dst[di] = std::move(src[si])
MoveElem(m, sp, si, dp, di) ==
    LET x == Load(m, sp, si)
        m1 == IF InBlock(m, sp, si) THEN m
              ELSE [m EXCEPT !.fault = @ \cup {"bad_access"}]
    IN  Store(Store(m1, sp, si, MovedFrom(x)), dp, di, x)

\* for (i = lo; i < hi; ++i) dst[i + shift] = std::move(src[i]);
RECURSIVE MoveLoop(_, _, _, _, _, _)
MoveLoop(m, sp, dp, lo, hi, shift) ==
    IF lo < hi
    THEN MoveLoop(MoveElem(m, sp, lo, dp, lo + shift), sp, dp, lo + 1, hi, shift)
    ELSE m

\* a fill that starts one slot too late
FillLoop_SkipsFirst(m, p, lo, hi, x) ==
    [m EXCEPT !.heap = [b \in Blocks |->
        IF b = p
        THEN [@[b] EXCEPT !.data = [i \in 1..Len(@) |->
                 IF i > lo + 1 /\ i <= hi THEN x ELSE @[i]]]
        ELSE @[b]]]

\* for (i = lo; i < hi; ++i) p[i] = x;
RECURSIVE FillLoop(_, _, _, _, _)
FillLoop(m, p, lo, hi, x) ==
    IF lo < hi THEN FillLoop(Store(m, p, lo, x), p, lo + 1, hi, x) ELSE m

\* for (i = 0; i < n; ++i) dst[i] = src[i];
RECURSIVE CopyLoop(_, _, _, _, _)
CopyLoop(m, sp, dp, i, n) ==
    IF i < n THEN CopyLoop(Store(m, dp, i, Load(m, sp, i)), sp, dp, i + 1, n) ELSE m

\* i = 0; for (item : init) items_[i++] = item;
RECURSIVE InitLoop(_, _, _, _)
InitLoop(m, p, i, init) ==
    IF i < Len(init) THEN InitLoop(Store(m, p, i, init[i + 1]), p, i + 1, init) ELSE m

-----------------------------------------------------------------------------
(* ArrayPtr<Type>: the operations on the raw pointer it owns *)

\* new fails: std::bad_alloc (the heap is exhausted, or the allocator refuses).
\* `fail` is the allocator's refusal; it is an input of the calls that allocate
\* (Refusable: there is no refusal where nothing is requested).
AllocFails(m, n, fail) == n # 0 /\ (fail \/ ~HasFree(m))
Refusable(fail, requested) == fail => requested

\* explicit ArrayPtr(size_t size)
ArrayPtr_Sized(m, n) ==
    IF n # 0 THEN [m |-> NewArray(m, n), raw |-> FreeId(m)]
    ELSE [m |-> m, raw |-> Null]

\* a move constructor that leaves the source owning the block
ArrayPtr_MoveCtor_KeepsSource(other) == [self |-> other, other |-> other]
\* ArrayPtr(ArrayPtr&& other)
ArrayPtr_MoveCtor(other) == [self |-> other, other |-> Null]

\* ~ArrayPtr()
ArrayPtr_Dtor(m, self) == DeleteArray(m, self)

\* a move assignment that leaves the source owning the block
ArrayPtr_MoveAssign_KeepsSource(m, self, other, same) ==
    IF ~same
    THEN [m |-> DeleteArray(m, self), self |-> other, other |-> other]
    ELSE [m |-> m, self |-> self, other |-> other]

\* ArrayPtr& operator=(ArrayPtr&& other); same: this == &other
ArrayPtr_MoveAssign(m, self, other, same) ==
    IF ~same
    THEN [m |-> DeleteArray(m, self), self |-> other, other |-> Null]
    ELSE [m |-> m, self |-> self, other |-> other]

\* Type* Release()
ArrayPtr_Release(self) == [ret |-> self, self |-> Null]

\* a swap that overwrites this pointer and leaves the other one as it was
ArrayPtr_Swap_CopiesOther(self, other) == [self |-> other, other |-> other]
\* void swap(ArrayPtr& other)
ArrayPtr_Swap(self, other) == [self |-> other, other |-> self]

-----------------------------------------------------------------------------
(* SimpleVector<Type>: the member functions, as the outcome of a call made in *)
(* the current state: the vectors and the heap it leaves, the exception it    *)
(* ends in, and the iterator or reference it returns                          *)

Dead == [alive |-> FALSE, size |-> 0, cap |-> 0, items |-> Null]
Vector(size, cap, items) ==
    [alive |-> TRUE, size |-> size, cap |-> cap, items |-> items]

\* the live elements, positions [0, size)
ContentsOf(m, s) == [i \in 1..s.size |-> Load(m, s.items, i - 1)]
Contents(v) == ContentsOf(mem, vec[v])

GetSize(v) == vec[v].size
GetCapacity(v) == vec[v].cap

\* the call returns; retp, reti: the block and the position the returned iterator
\* or reference points to (Null, -1 for a call that returns nothing)
Returned(vs, m, retp, reti) ==
    [vec |-> vs, mem |-> m, exc |-> "none", retp |-> retp, reti |-> reti]
Done(vs, m) == Returned(vs, m, Null, -1)

\* the call ends in an exception before it has changed anything
Thrown(exc) == [vec |-> vec, mem |-> mem, exc |-> exc, retp |-> Null, reti |-> -1]

\* SimpleVector() noexcept = default
DefaultCtor(v) == Done([vec EXCEPT ![v] = Vector(0, 0, Null)], mem)

\* explicit SimpleVector(ReserveProxyObj proxy)
ReserveCtor(v, n, fail) ==
    IF AllocFails(mem, n, fail) THEN Thrown("bad_alloc")
    ELSE LET p == IF n > 0 THEN FreeId(mem) ELSE Null
             m1 == IF n > 0 THEN NewArray(mem, n) ELSE mem
         IN  Done([vec EXCEPT ![v] = Vector(0, n, p)], m1)

\* explicit SimpleVector(size_t size)
SizedCtor(v, n, fail) ==
    IF AllocFails(mem, n, fail) THEN Thrown("bad_alloc")
    ELSE LET a == ArrayPtr_Sized(mem, n)
         IN  Done([vec EXCEPT ![v] = Vector(n, n, a.raw)],
                  FillLoop(a.m, a.raw, 0, n, Default))

\* SimpleVector(size_t size, const Type& value)
FillCtor(v, n, x, fail) ==
    IF AllocFails(mem, n, fail) THEN Thrown("bad_alloc")
    ELSE LET a == ArrayPtr_Sized(mem, n)
         IN  Done([vec EXCEPT ![v] = Vector(n, n, a.raw)],
                  FillLoop(a.m, a.raw, 0, n, x))

\* SimpleVector(std::initializer_list<Type> init)
InitListCtor(v, init, fail) ==
    IF AllocFails(mem, Len(init), fail) THEN Thrown("bad_alloc")
    ELSE LET a == ArrayPtr_Sized(mem, Len(init))
         IN  Done([vec EXCEPT ![v] = Vector(Len(init), Len(init), a.raw)],
                  InitLoop(a.m, a.raw, 0, init))

\* a copy constructor that adopts the source's buffer instead of copying it
CopyCtor_Shallow(v, o, fail) ==
    Done([vec EXCEPT ![v] = Vector(vec[o].size, vec[o].size, vec[o].items)], mem)

\* a copy constructor that allocates and reports the capacity of the source
CopyCtor_KeepsCapacity(v, o, fail) ==
    LET n == vec[o].cap IN
    IF AllocFails(mem, n, fail) THEN Thrown("bad_alloc")
    ELSE LET a == ArrayPtr_Sized(mem, n)
         IN  Done([vec EXCEPT ![v] = Vector(vec[o].size, n, a.raw)],
                  CopyLoop(a.m, vec[o].items, a.raw, 0, vec[o].size))

\* SimpleVector(const SimpleVector& other)
CopyCtor(v, o, fail) ==
    LET n == vec[o].size IN
    IF AllocFails(mem, n, fail) THEN Thrown("bad_alloc")
    ELSE LET a == ArrayPtr_Sized(mem, n)
         IN  Done([vec EXCEPT ![v] = Vector(n, n, a.raw)],
                  CopyLoop(a.m, vec[o].items, a.raw, 0, n))

\* SimpleVector(SimpleVector&& other) noexcept
MoveCtor(v, o) ==
    LET mv == ArrayPtr_MoveCtor(vec[o].items)
    IN  Done([vec EXCEPT ![v] = Vector(vec[o].size, vec[o].cap, mv.self),
                         ![o] = Vector(0, 0, mv.other)], mem)

\* ~SimpleVector() = default: destroys items_
Dtor(v) == Done([vec EXCEPT ![v] = Dead], ArrayPtr_Dtor(mem, vec[v].items))

\* a Reserve that never deletes the buffer it replaces
Reserve_Leaks(v, n, fail) ==
    LET s == vec[v] IN
    IF n <= s.cap THEN Done(vec, mem)
    ELSE IF AllocFails(mem, n, fail) THEN Thrown("bad_alloc")
    ELSE LET a == ArrayPtr_Sized(mem, n)
         IN  Done([vec EXCEPT ![v] = Vector(s.size, n, a.raw)],
                  MoveLoop(a.m, s.items, a.raw, 0, s.size, 0))

\* void Reserve(size_t new_capacity)
Reserve(v, n, fail) ==
    LET s == vec[v] IN
    IF n <= s.cap THEN Done(vec, mem)
    ELSE IF AllocFails(mem, n, fail) THEN Thrown("bad_alloc")
    ELSE LET a == ArrayPtr_Sized(mem, n)
             m1 == MoveLoop(a.m, s.items, a.raw, 0, s.size, 0)
             sw == ArrayPtr_Swap(s.items, a.raw)
         IN  Done([vec EXCEPT ![v] = Vector(s.size, n, sw.self)],
                  ArrayPtr_Dtor(m1, sw.other))

\* a bounds check that lets index == size through
At_OffByOne(v, i) ==
    IF i > vec[v].size THEN Thrown("out_of_range")
    ELSE Returned(vec, mem, vec[v].items, i)

\* Type& At(size_t index): the checked access
At(v, i) ==
    IF i >= vec[v].size THEN Thrown("out_of_range")
    ELSE Returned(vec, mem, vec[v].items, i)

\* v[index] = x, v.At(index) = x: a write through the returned reference,
\* index < size
SetAt(v, i, x) ==
    Returned(vec, Store(mem, vec[v].items, i, x), vec[v].items, i)

\* a Clear that gives the buffer back
Clear_ReleasesBuffer(v) ==
    Done([vec EXCEPT ![v] = Vector(0, 0, Null)], DeleteArray(mem, vec[v].items))

\* void Clear() noexcept
Clear(v) == Done([vec EXCEPT ![v].size = 0], mem)

\* void Resize(size_t new_size)
Resize(v, n, fail) ==
    LET s == vec[v] IN
    IF n <= s.size THEN Done([vec EXCEPT ![v].size = n], mem)
    ELSE IF n <= s.cap
    THEN Done([vec EXCEPT ![v].size = n], FillLoop(mem, s.items, s.size, n, Default))
    ELSE IF AllocFails(mem, n, fail) THEN Thrown("bad_alloc")
    ELSE LET a == ArrayPtr_Sized(mem, n)
             m1 == MoveLoop(a.m, s.items, a.raw, 0, s.size, 0)
             m2 == FillLoop(m1, a.raw, s.size, n, Default)
             sw == ArrayPtr_Swap(s.items, a.raw)
         IN  Done([vec EXCEPT ![v] = Vector(n, n, sw.self)],
                  ArrayPtr_Dtor(m2, sw.other))

\* void swap(SimpleVector& other) noexcept
Swap(v, o) ==
    LET s == vec[v]
        t == vec[o]
        sw == ArrayPtr_Swap(s.items, t.items)
    IN  IF v = o THEN Done(vec, mem)
        ELSE Done([vec EXCEPT ![v] = Vector(t.size, t.cap, sw.self),
                              ![o] = Vector(s.size, s.cap, sw.other)], mem)

\* a copy assignment that releases its own buffer before it allocates the new one
CopyAssign_ReleaseFirst(v, o, fail) ==
    LET s == vec[v]
        t == vec[o]
        m0 == DeleteArray(mem, s.items)
    IN  IF v = o THEN Done(vec, mem)
        ELSE IF AllocFails(m0, t.size, fail)
        THEN [vec |-> [vec EXCEPT ![v] = Vector(0, 0, Null)], mem |-> m0,
              exc |-> "bad_alloc", retp |-> Null, reti |-> -1]
        ELSE LET a == ArrayPtr_Sized(m0, t.size)
             IN  Done([vec EXCEPT ![v] = Vector(t.size, t.size, a.raw)],
                      CopyLoop(a.m, t.items, a.raw, 0, t.size))

\* SimpleVector& operator=(const SimpleVector& rhs)
CopyAssign(v, o, fail) ==
    LET s == vec[v]
        t == vec[o]
    IN  IF v = o THEN Done(vec, mem)
        ELSE IF AllocFails(mem, t.size, fail) THEN Thrown("bad_alloc")
        ELSE LET \* SimpleVector temp(rhs);
                 a == ArrayPtr_Sized(mem, t.size)
                 m1 == CopyLoop(a.m, t.items, a.raw, 0, t.size)
                 \* swap(temp);
                 sw == ArrayPtr_Swap(s.items, a.raw)
             IN  \* and temp is destroyed with the buffer the vector had
                 Done([vec EXCEPT ![v] = Vector(t.size, t.size, sw.self)],
                      ArrayPtr_Dtor(m1, sw.other))

\* SimpleVector& operator=(SimpleVector&& rhs) noexcept
MoveAssign(v, o) ==
    LET s == vec[v]
        t == vec[o]
        mv == ArrayPtr_MoveAssign(mem, s.items, t.items, FALSE)
    IN  IF v = o THEN Done(vec, mem)
        ELSE Done([vec EXCEPT ![v] = Vector(t.size, t.cap, mv.self),
                              ![o] = Vector(0, 0, mv.other)], mv.m)

\* growth that forgets to grow
NewCapacity_Same(cap) == cap
\* growth by one slot instead of doubling
NewCapacity_PlusOne(cap) == cap + 1
\* growth that starts at two slots
NewCapacity_FromTwo(cap) == IF cap = 0 THEN 2 ELSE cap * 2
\* size_t new_capacity = capacity_ == 0 ? 1 : capacity_ * 2;
NewCapacity(cap) == IF cap = 0 THEN 1 ELSE cap * 2

\* an append that, when there is spare capacity, exposes the slot without
\* writing it
EmplaceBack_KeepsSlot(v, x, fail) ==
    LET s == vec[v]
        grow == s.size >= s.cap
        nc == NewCapacity(s.cap)
    IN  IF grow /\ AllocFails(mem, nc, fail) THEN Thrown("bad_alloc")
        ELSE LET a == ArrayPtr_Sized(mem, nc)
                 m1 == MoveLoop(a.m, s.items, a.raw, 0, s.size, 0)
                 sw == ArrayPtr_Swap(s.items, a.raw)
                 m2 == IF grow THEN ArrayPtr_Dtor(m1, sw.other) ELSE mem
                 items == IF grow THEN sw.self ELSE s.items
                 cap == IF grow THEN nc ELSE s.cap
             IN  Returned([vec EXCEPT ![v] = Vector(s.size + 1, cap, items)],
                          IF grow THEN Store(m2, items, s.size, x) ELSE m2,
                          items, s.size)

\* Type& EmplaceBack(Args&&... args), args being one value x
EmplaceBack(v, x, fail) ==
    LET s == vec[v]
        grow == s.size >= s.cap
        nc == NewCapacity(s.cap)
    IN  IF grow /\ AllocFails(mem, nc, fail) THEN Thrown("bad_alloc")
        ELSE LET a == ArrayPtr_Sized(mem, nc)
                 m1 == MoveLoop(a.m, s.items, a.raw, 0, s.size, 0)
                 sw == ArrayPtr_Swap(s.items, a.raw)
                 \* the state after the if block: new_items is destroyed at its end
                 m2 == IF grow THEN ArrayPtr_Dtor(m1, sw.other) ELSE mem
                 items == IF grow THEN sw.self ELSE s.items
                 cap == IF grow THEN nc ELSE s.cap
             IN  Returned([vec EXCEPT ![v] = Vector(s.size + 1, cap, items)],
                          Store(m2, items, s.size, x), items, s.size)

\* void PushBack(const Type& item), void PushBack(Type&& item)
PushBack(v, x, fail) == EmplaceBack(v, x, fail)

\* what a read through a dangling reference can yield
DanglingValues == Values \cup {Indet}

\* the value read through a `const Type&` bound to slot i of block p: the slot's
\* content while the block is live, any value u once it has been deleted
ReadRef(m, p, i, u) == IF InBlock(m, p, i) THEN Load(m, p, i) ELSE u

\* the heap after that read: reading a deleted block is a fault
AfterReadRef(m, p, i) ==
    IF InBlock(m, p, i) THEN m ELSE [m EXCEPT !.fault = @ \cup {"bad_access"}]

\* Type& EmplaceBack(Args&&... args), args being a reference to items_[i] of this
\* vector, i < size, bound before the call
EmplaceBackRef(v, i, u, fail) ==
    LET s == vec[v]
        grow == s.size >= s.cap
        nc == NewCapacity(s.cap)
    IN  IF grow /\ AllocFails(mem, nc, fail) THEN Thrown("bad_alloc")
        ELSE LET a == ArrayPtr_Sized(mem, nc)
                 m1 == MoveLoop(a.m, s.items, a.raw, 0, s.size, 0)
                 sw == ArrayPtr_Swap(s.items, a.raw)
                 \* the state after the if block: new_items, which holds the old
                 \* buffer since the swap, is destroyed at its end
                 m2 == IF grow THEN ArrayPtr_Dtor(m1, sw.other) ELSE mem
                 items == IF grow THEN sw.self ELSE s.items
                 cap == IF grow THEN nc ELSE s.cap
                 \* items_[size_] = Type(std::forward<Args>(args)...) reads the
                 \* argument only now, where the reference was bound
                 x == ReadRef(m2, s.items, i, u)
                 m3 == AfterReadRef(m2, s.items, i)
             IN  Returned([vec EXCEPT ![v] = Vector(s.size + 1, cap, items)],
                          Store(m3, items, s.size, x), items, s.size)

\* void PushBack(const Type& item), item being (*this)[i]
PushBackRef(v, i, u, fail) == EmplaceBackRef(v, i, u, fail)

\* the shift done from the front: each element overwrites the next one before
\* that one has been moved
ShiftRight_FromFront(m, p, hi, lo) == MoveLoop(m, p, p, lo, hi, 1)

\* for (size_t i = hi; i > lo; --i) items_[i] = std::move(items_[i - 1]);
RECURSIVE ShiftRight(_, _, _, _)
ShiftRight(m, p, hi, lo) ==
    IF hi > lo THEN ShiftRight(MoveElem(m, p, hi - 1, p, hi), p, hi - 1, lo) ELSE m

\* Iterator Emplace(ConstIterator pos, Args&&... args), pos being
\* begin() + offset, offset <= size, args being one value x
Emplace(v, offset, x, fail) ==
    LET s == vec[v]
        grow == s.size >= s.cap
        nc == NewCapacity(s.cap)
    IN  IF grow /\ AllocFails(mem, nc, fail) THEN Thrown("bad_alloc")
        ELSE LET a == ArrayPtr_Sized(mem, nc)
                 g1 == MoveLoop(a.m, s.items, a.raw, 0, offset, 0)
                 g2 == Store(g1, a.raw, offset, x)
                 g3 == MoveLoop(g2, s.items, a.raw, offset, s.size, 1)
                 sw == ArrayPtr_Swap(s.items, a.raw)
                 g4 == ArrayPtr_Dtor(g3, sw.other)
                 i1 == ShiftRight(mem, s.items, s.size, offset)
                 i2 == Store(i1, s.items, offset, x)
                 items == IF grow THEN sw.self ELSE s.items
                 cap == IF grow THEN nc ELSE s.cap
             IN  Returned([vec EXCEPT ![v] = Vector(s.size + 1, cap, items)],
                          IF grow THEN g4 ELSE i2, items, offset)

\* Iterator Insert(ConstIterator pos, const Type& value), and the Type&& overload
Insert(v, offset, x, fail) == Emplace(v, offset, x, fail)

\* Iterator Emplace(ConstIterator pos, Args&&... args), pos being
\* begin() + offset, offset <= size, args being a reference to items_[i] of this
\* vector, i < size, bound before the call
EmplaceRef(v, offset, i, u, fail) ==
    LET s == vec[v]
        grow == s.size >= s.cap
        nc == NewCapacity(s.cap)
    IN  IF grow /\ AllocFails(mem, nc, fail) THEN Thrown("bad_alloc")
        ELSE LET a == ArrayPtr_Sized(mem, nc)
                 g1 == MoveLoop(a.m, s.items, a.raw, 0, offset, 0)
                 \* the argument is read after the prefix has been moved out
                 g2 == Store(AfterReadRef(g1, s.items, i), a.raw, offset,
                             ReadRef(g1, s.items, i, u))
                 g3 == MoveLoop(g2, s.items, a.raw, offset, s.size, 1)
                 sw == ArrayPtr_Swap(s.items, a.raw)
                 g4 == ArrayPtr_Dtor(g3, sw.other)
                 i1 == ShiftRight(mem, s.items, s.size, offset)
                 \* the argument is read after the suffix has been shifted
                 i2 == Store(AfterReadRef(i1, s.items, i), s.items, offset,
                             ReadRef(i1, s.items, i, u))
                 items == IF grow THEN sw.self ELSE s.items
                 cap == IF grow THEN nc ELSE s.cap
             IN  Returned([vec EXCEPT ![v] = Vector(s.size + 1, cap, items)],
                          IF grow THEN g4 ELSE i2, items, offset)

\* Iterator Insert(ConstIterator pos, const Type& value), value being (*this)[i]
InsertRef(v, offset, i, u, fail) == EmplaceRef(v, offset, i, u, fail)

\* a PopBack without the test for emptiness: size_t wraps below zero
PopBack_Unchecked(v) ==
    Done([vec EXCEPT ![v].size = (vec[v].size - 1) % SizeMax], mem)

\* void PopBack() noexcept
PopBack(v) ==
    LET s == vec[v] IN
    Done([vec EXCEPT ![v].size = IF s.size > 0 THEN s.size - 1 ELSE s.size], mem)

\* a shift that starts one element too late and leaves the erased element in place
ShiftLeft_SkipsFirst(m, p, offset, size) ==
    MoveLoop(m, p, p, offset + 2, size, -1)

\* for (size_t i = offset; i < size_ - 1; ++i) items_[i] = std::move(items_[i + 1]);
ShiftLeft(m, p, offset, size) == MoveLoop(m, p, p, offset + 1, size, -1)

\* Iterator Erase(ConstIterator pos), pos being begin() + offset, offset < size
Erase(v, offset) ==
    LET s == vec[v] IN
    Returned([vec EXCEPT ![v].size = s.size - 1],
             ShiftLeft(mem, s.items, offset, s.size), s.items, offset)

\* for (size_t i = 0; i < lhs.GetSize(); ++i) if (lhs[i] != rhs[i]) return false;
\* return true;
RECURSIVE EqLoop(_, _, _)
EqLoop(lhs, rhs, i) ==
    IF i < GetSize(lhs)
    THEN IF Load(mem, vec[lhs].items, i) # Load(mem, vec[rhs].items, i) THEN FALSE
         ELSE EqLoop(lhs, rhs, i + 1)
    ELSE TRUE

\* bool operator==(const SimpleVector<Type>& lhs, const SimpleVector<Type>& rhs)
OperatorEq(lhs, rhs) ==
    IF GetSize(lhs) # GetSize(rhs) THEN FALSE ELSE EqLoop(lhs, rhs, 0)

\* bool operator!=
OperatorNe(lhs, rhs) == ~OperatorEq(lhs, rhs)

\* a comparison that stops at the end of the shorter range and calls a proper
\* prefix equivalent
LexicographicalCompare_IgnoresLength(lhs, rhs, i) ==
    \E k \in 0..(GetSize(lhs) - 1) :
        /\ k < GetSize(rhs)
        /\ Load(mem, vec[lhs].items, k) < Load(mem, vec[rhs].items, k)
        /\ \A j \in 0..(k - 1) :
              Load(mem, vec[lhs].items, j) = Load(mem, vec[rhs].items, j)

\* std::lexicographical_compare(lhs.begin(), lhs.end(), rhs.begin(), rhs.end()):
\* for (; first1 != last1 && first2 != last2; ++first1, ++first2) {
\*     if (*first1 < *first2) return true;
\*     if (*first2 < *first1) return false; }
\* return first1 == last1 && first2 != last2;
RECURSIVE LexicographicalCompare(_, _, _)
LexicographicalCompare(lhs, rhs, i) ==
    IF i # GetSize(lhs) /\ i # GetSize(rhs)
    THEN LET x == Load(mem, vec[lhs].items, i)
             y == Load(mem, vec[rhs].items, i)
         IN  IF x < y THEN TRUE
             ELSE IF y < x THEN FALSE
             ELSE LexicographicalCompare(lhs, rhs, i + 1)
    ELSE i = GetSize(lhs) /\ i # GetSize(rhs)

\* bool operator<
OperatorLt(lhs, rhs) == LexicographicalCompare(lhs, rhs, 0)
\* bool operator<=
OperatorLe(lhs, rhs) == ~OperatorLt(rhs, lhs)
\* bool operator>
OperatorGt(lhs, rhs) == OperatorLt(rhs, lhs)
\* bool operator>=
OperatorGe(lhs, rhs) == ~OperatorLt(lhs, rhs)

-----------------------------------------------------------------------------
(* The calls: each action is one call of a member function, made when its     *)
(* precondition holds, and leaves the outcome of the function as the state    *)

NoHist == [pure |-> FALSE, pushed |-> <<>>]
FreshHist == [pure |-> TRUE, pushed |-> <<>>]

\* op: the function called; v: the object it was called on; o: its other operand
\* (v when there is none); exc: the exception it ended in, or "none"; retp, reti:
\* the iterator or reference it returned, as block and position (Null, -1: nothing)
\* Only the calls in `watch`, pairs of an operation and the way it ended, are
\* recorded.
Unrecorded ==
    [op |-> "-", v |-> "-", o |-> "-", exc |-> "none", retp |-> Null, reti |-> -1]
Called(op, v, o, exc, retp, reti) ==
    IF <<op, exc>> \in watch
    THEN [op |-> op, v |-> v, o |-> o, exc |-> exc, retp |-> retp, reti |-> reti]
    ELSE Unrecorded

\* the push histories after a call that changed v, or v and o
Changed(v) == [hist EXCEPT ![v] = NoHist]
Changed2(v, o) == [hist EXCEPT ![v] = NoHist, ![o] = NoHist]
\* the push histories after x was appended to v
Pushed(v, x) ==
    [hist EXCEPT ![v] = IF @.pure THEN [@ EXCEPT !.pushed = Append(@, x)] ELSE NoHist]

\* the call op(v, o) ends with outcome r; h: the push histories if it returns
Call(op, v, o, r, h) ==
    /\ vec' = r.vec
    /\ mem' = r.mem
    /\ last' = Called(op, v, o, r.exc, r.retp, r.reti)
    /\ hist' = IF r.exc = "none" THEN h ELSE hist
    /\ UNCHANGED <<watch, elemKind, ptr, raw>>

DefaultCtorCall(v) ==
    /\ ~vec[v].alive
    /\ Call("SimpleVector()", v, v, DefaultCtor(v), [hist EXCEPT ![v] = FreshHist])

ReserveCtorCall(v, n, fail) ==
    /\ ~vec[v].alive
    /\ Refusable(fail, n # 0)
    /\ Call("SimpleVector(Reserve)", v, v, ReserveCtor(v, n, fail), Changed(v))

SizedCtorCall(v, n, fail) ==
    /\ ~vec[v].alive
    /\ Refusable(fail, n # 0)
    /\ Call("SimpleVector(size)", v, v, SizedCtor(v, n, fail), Changed(v))

FillCtorCall(v, n, x, fail) ==
    /\ ~vec[v].alive
    /\ Refusable(fail, n # 0)
    /\ Call("SimpleVector(size,value)", v, v, FillCtor(v, n, x, fail), Changed(v))

InitListCtorCall(v, init, fail) ==
    /\ ~vec[v].alive
    /\ Refusable(fail, Len(init) # 0)
    /\ Call("SimpleVector(init)", v, v, InitListCtor(v, init, fail), Changed(v))

CopyCtorCall(v, o, fail) ==
    /\ ~vec[v].alive
    /\ vec[o].alive
    /\ Refusable(fail, vec[o].size # 0)
    /\ Call("SimpleVector(const&)", v, o, CopyCtor(v, o, fail), Changed(v))

MoveCtorCall(v, o) ==
    /\ ~vec[v].alive
    /\ vec[o].alive
    /\ Call("SimpleVector(&&)", v, o, MoveCtor(v, o), Changed2(v, o))

DtorCall(v) ==
    /\ vec[v].alive
    /\ Call("~SimpleVector", v, v, Dtor(v), Changed(v))

ReserveCall(v, n, fail) ==
    /\ vec[v].alive
    /\ Refusable(fail, n > vec[v].cap)
    /\ Call("Reserve", v, v, Reserve(v, n, fail), Changed(v))

AtCall(v, i) ==
    /\ vec[v].alive
    /\ Call("At", v, v, At(v, i), hist)

SetAtCall(v, i, x) ==
    /\ vec[v].alive
    /\ i < vec[v].size
    /\ Call("operator[]", v, v, SetAt(v, i, x), Changed(v))

ClearCall(v) ==
    /\ vec[v].alive
    /\ Call("Clear", v, v, Clear(v), Changed(v))

ResizeCall(v, n, fail) ==
    /\ vec[v].alive
    /\ Refusable(fail, n > vec[v].cap)
    /\ Call("Resize", v, v, Resize(v, n, fail), Changed(v))

SwapCall(v, o) ==
    /\ vec[v].alive
    /\ vec[o].alive
    /\ Call("swap", v, o, Swap(v, o), Changed2(v, o))

CopyAssignCall(v, o, fail) ==
    /\ vec[v].alive
    /\ vec[o].alive
    /\ Refusable(fail, v # o /\ vec[o].size # 0)
    /\ Call("operator=(const&)", v, o, CopyAssign(v, o, fail), Changed(v))

MoveAssignCall(v, o) ==
    /\ vec[v].alive
    /\ vec[o].alive
    /\ Call("operator=(&&)", v, o, MoveAssign(v, o), Changed2(v, o))

PushBackCall(v, x, fail) ==
    /\ vec[v].alive
    /\ Refusable(fail, vec[v].size >= vec[v].cap)
    /\ Call("EmplaceBack", v, v, PushBack(v, x, fail), Pushed(v, x))

InsertCall(v, offset, x, fail) ==
    /\ vec[v].alive
    /\ offset <= vec[v].size
    /\ Refusable(fail, vec[v].size >= vec[v].cap)
    /\ Call("Emplace", v, v, Insert(v, offset, x, fail), Changed(v))

\* v.PushBack(v[i]): operator[] asserts i < size
PushBackRefCall(v, i, u, fail) ==
    /\ vec[v].alive
    /\ i < vec[v].size
    /\ Refusable(fail, vec[v].size >= vec[v].cap)
    /\ Call("PushBack(v[i])", v, v, PushBackRef(v, i, u, fail), Changed(v))

\* v.Insert(v.begin() + offset, v[i])
InsertRefCall(v, offset, i, u, fail) ==
    /\ vec[v].alive
    /\ offset <= vec[v].size
    /\ i < vec[v].size
    /\ Refusable(fail, vec[v].size >= vec[v].cap)
    /\ Call("Insert(pos,v[i])", v, v, InsertRef(v, offset, i, u, fail), Changed(v))

PopBackCall(v) ==
    /\ vec[v].alive
    /\ Call("PopBack", v, v, PopBack(v), Changed(v))

EraseCall(v, offset) ==
    /\ vec[v].alive
    /\ offset < vec[v].size
    /\ Call("Erase", v, v, Erase(v, offset), Changed(v))

\* a comparison: it reads both vectors and changes neither
Compare(op, lhs, rhs) ==
    /\ vec[lhs].alive
    /\ vec[rhs].alive
    /\ Call(op, lhs, rhs, Done(vec, mem), hist)

OperatorEqCall(lhs, rhs) == Compare("operator==", lhs, rhs)
OperatorNeCall(lhs, rhs) == Compare("operator!=", lhs, rhs)
OperatorLtCall(lhs, rhs) == Compare("operator<", lhs, rhs)
OperatorLeCall(lhs, rhs) == Compare("operator<=", lhs, rhs)
OperatorGtCall(lhs, rhs) == Compare("operator>", lhs, rhs)
OperatorGeCall(lhs, rhs) == Compare("operator>=", lhs, rhs)

-----------------------------------------------------------------------------
(* Free-standing ArrayPtr<Type> objects *)

NoPtr == [alive |-> FALSE, raw |-> Null]
Owner(r) == [alive |-> TRUE, raw |-> r]

PtrCalled(op, p, q) == last' = Called(op, p, q, "none", Null, -1)

\* ArrayPtr() = default
PtrDefaultCtor(p) ==
    /\ ~ptr[p].alive
    /\ ptr' = [ptr EXCEPT ![p] = Owner(Null)]
    /\ PtrCalled("ArrayPtr()", p, p)
    /\ UNCHANGED <<watch, elemKind, mem, vec, raw, hist>>

\* explicit ArrayPtr(size_t size)
PtrSizedCtor(p, n, fail) ==
    /\ ~ptr[p].alive
    /\ Refusable(fail, n # 0)
    /\ IF AllocFails(mem, n, fail)
       THEN /\ last' = Called("ArrayPtr(size)", p, p, "bad_alloc", Null, -1)
            /\ UNCHANGED <<watch, elemKind, mem, vec, ptr, raw, hist>>
       ELSE LET a == ArrayPtr_Sized(mem, n) IN
            /\ ptr' = [ptr EXCEPT ![p] = Owner(a.raw)]
            /\ PtrCalled("ArrayPtr(size)", p, p)
            /\ UNCHANGED <<watch, elemKind, vec, raw, hist>>
            /\ mem' = a.m

\* explicit ArrayPtr(Type* raw_ptr): adopts a block the caller holds
PtrAdoptCtor(p, r) ==
    /\ ~ptr[p].alive
    /\ r \in raw
    /\ ptr' = [ptr EXCEPT ![p] = Owner(r)]
    /\ raw' = raw \ {r}
    /\ PtrCalled("ArrayPtr(Type*)", p, p)
    /\ UNCHANGED <<watch, elemKind, mem, vec, hist>>

\* ArrayPtr(ArrayPtr&& other) noexcept
PtrMoveCtor(p, q) ==
    /\ ~ptr[p].alive
    /\ ptr[q].alive
    /\ LET mv == ArrayPtr_MoveCtor(ptr[q].raw) IN
       ptr' = [ptr EXCEPT ![p] = Owner(mv.self), ![q] = Owner(mv.other)]
    /\ PtrCalled("ArrayPtr(&&)", p, q)
    /\ UNCHANGED <<watch, elemKind, mem, vec, raw, hist>>

\* ~ArrayPtr()
PtrDtor(p) ==
    /\ ptr[p].alive
    /\ ptr' = [ptr EXCEPT ![p] = NoPtr]
    /\ PtrCalled("~ArrayPtr", p, p)
    /\ UNCHANGED <<watch, elemKind, vec, raw, hist>>
    /\ mem' = ArrayPtr_Dtor(mem, ptr[p].raw)

\* ArrayPtr& operator=(ArrayPtr&& other) noexcept
PtrMoveAssign(p, q) ==
    /\ ptr[p].alive
    /\ ptr[q].alive
    /\ LET mv == ArrayPtr_MoveAssign(mem, ptr[p].raw, ptr[q].raw, p = q) IN
       /\ ptr' = IF p = q THEN [ptr EXCEPT ![p] = Owner(mv.self)]
                 ELSE [ptr EXCEPT ![p] = Owner(mv.self), ![q] = Owner(mv.other)]
       /\ mem' = mv.m
    /\ PtrCalled("ArrayPtr::operator=(&&)", p, q)
    /\ UNCHANGED <<watch, elemKind, vec, raw, hist>>

\* Type* Release() noexcept: the caller keeps the returned pointer
PtrRelease(p) ==
    /\ ptr[p].alive
    /\ LET rl == ArrayPtr_Release(ptr[p].raw) IN
       /\ ptr' = [ptr EXCEPT ![p] = Owner(rl.self)]
       /\ raw' = IF rl.ret = Null THEN raw ELSE raw \cup {rl.ret}
       /\ last' = Called("ArrayPtr::Release", p, p, "none", rl.ret, -1)
    /\ UNCHANGED <<watch, elemKind, mem, vec, hist>>

\* void swap(ArrayPtr& other) noexcept
PtrSwap(p, q) ==
    /\ ptr[p].alive
    /\ ptr[q].alive
    /\ LET sw == ArrayPtr_Swap(ptr[p].raw, ptr[q].raw) IN
       ptr' = IF p = q THEN ptr
              ELSE [ptr EXCEPT ![p] = Owner(sw.self), ![q] = Owner(sw.other)]
    /\ PtrCalled("ArrayPtr::swap", p, q)
    /\ UNCHANGED <<watch, elemKind, mem, vec, raw, hist>>

-----------------------------------------------------------------------------
(* The specifications *)

\* the element types the templates are instantiated with
ElemKinds == {"trivial", "class"}

\* the sequences over S of length at most n
SeqsUpTo(S, n) == UNION {[1..k -> S] : k \in 0..n}

\* an append fits the bound lim on the capacity
Fits(v, lim) == vec[v].size < vec[v].cap \/ NewCapacity(vec[v].cap) <= lim

\* the operations on one SimpleVector, by the names `last` records
VectorOps ==
    {"SimpleVector()", "SimpleVector(Reserve)", "SimpleVector(size)",
     "SimpleVector(size,value)", "SimpleVector(init)", "~SimpleVector",
     "Reserve", "At", "operator[]", "Clear", "Resize", "EmplaceBack", "Emplace",
     "PopBack", "Erase"}

\* the state after `SimpleVector<Type> a;`
Start ==
    /\ elemKind \in ElemKinds
    /\ mem = [heap |-> [p \in Blocks |-> FreeBlock], fault |-> {}]
    /\ vec = [v \in Vecs |-> IF v = "a" THEN Vector(0, 0, Null) ELSE Dead]
    /\ ptr = [p \in Ptrs |-> NoPtr]
    /\ raw = {}
    /\ hist = [v \in Vecs |-> IF v = "a" THEN FreshHist ELSE NoHist]
    /\ last = Unrecorded

\* the operations on one vector of the set V, capacities bounded by lim, element
\* values drawn from Vals
VectorStep(V, lim, Vals) ==
    \/ \E v \in V : DefaultCtorCall(v)
    \/ \E v \in V, n \in 0..lim, fail \in BOOLEAN : ReserveCtorCall(v, n, fail)
    \/ \E v \in V, n \in 0..lim, fail \in BOOLEAN : SizedCtorCall(v, n, fail)
    \/ \E v \in V, n \in 0..lim, x \in Vals, fail \in BOOLEAN : FillCtorCall(v, n, x, fail)
    \/ \E v \in V, init \in SeqsUpTo(Vals, lim), fail \in BOOLEAN :
          InitListCtorCall(v, init, fail)
    \/ \E v \in V : DtorCall(v)
    \/ \E v \in V, n \in 0..lim, fail \in BOOLEAN : ReserveCall(v, n, fail)
    \/ \E v \in V, i \in 0..lim, x \in Vals : SetAtCall(v, i, x)
    \/ \E v \in V : ClearCall(v)
    \/ \E v \in V, n \in 0..lim, fail \in BOOLEAN : ResizeCall(v, n, fail)
    \/ \E v \in V, x \in Vals, fail \in BOOLEAN : Fits(v, lim) /\ PushBackCall(v, x, fail)
    \/ \E v \in V, k \in 0..lim, x \in Vals, fail \in BOOLEAN :
          Fits(v, lim) /\ InsertCall(v, k, x, fail)
    \/ \E v \in V : PopBackCall(v)
    \/ \E v \in V, k \in 0..lim : EraseCall(v, k)

\* the checked read
ReadStep(V, lim) == \E v \in V, i \in 0..lim : AtCall(v, i)

\* the operations that involve two vectors
PairStep ==
    \/ \E v \in Vecs, o \in Vecs, fail \in BOOLEAN : CopyCtorCall(v, o, fail)
    \/ \E v \in Vecs, o \in Vecs : MoveCtorCall(v, o)
    \/ \E v \in Vecs, o \in Vecs : SwapCall(v, o)
    \/ \E v \in Vecs, o \in Vecs, fail \in BOOLEAN : CopyAssignCall(v, o, fail)
    \/ \E v \in Vecs, o \in Vecs : MoveAssignCall(v, o)

\* the comparisons of two vectors
CompareStep ==
    \/ \E lhs \in Vecs, rhs \in Vecs : OperatorEqCall(lhs, rhs)
    \/ \E lhs \in Vecs, rhs \in Vecs : OperatorNeCall(lhs, rhs)
    \/ \E lhs \in Vecs, rhs \in Vecs : OperatorLtCall(lhs, rhs)
    \/ \E lhs \in Vecs, rhs \in Vecs : OperatorLeCall(lhs, rhs)
    \/ \E lhs \in Vecs, rhs \in Vecs : OperatorGtCall(lhs, rhs)
    \/ \E lhs \in Vecs, rhs \in Vecs : OperatorGeCall(lhs, rhs)

\* the calls whose argument refers to an element of the vector itself; V, lim as
\* for VectorStep
SelfRefStep(V, lim) ==
    \/ \E v \in V, i \in 0..lim, u \in DanglingValues, fail \in BOOLEAN :
          Fits(v, lim) /\ PushBackRefCall(v, i, u, fail)
    \/ \E v \in V, k \in 0..lim, i \in 0..lim, u \in DanglingValues, fail \in BOOLEAN :
          Fits(v, lim) /\ InsertRefCall(v, k, i, u, fail)

\* the operations on free-standing buffer owners
PtrStep ==
    \/ \E p \in Ptrs : PtrDefaultCtor(p)
    \/ \E p \in Ptrs, n \in PtrSizes, fail \in BOOLEAN : PtrSizedCtor(p, n, fail)
    \/ \E p \in Ptrs, r \in Blocks : PtrAdoptCtor(p, r)
    \/ \E p \in Ptrs, q \in Ptrs : PtrMoveCtor(p, q)
    \/ \E p \in Ptrs : PtrDtor(p)
    \/ \E p \in Ptrs, q \in Ptrs : PtrMoveAssign(p, q)
    \/ \E p \in Ptrs : PtrRelease(p)
    \/ \E p \in Ptrs, q \in Ptrs : PtrSwap(p, q)

\* the ways a call ends
Excs == {"none", "bad_alloc", "out_of_range"}
MoveOps == {"SimpleVector(&&)", "operator=(&&)"}
CopyOps == {"SimpleVector(const&)", "operator=(const&)"}

\* two vectors, every mutator; the moves are recorded
Init == Start /\ watch = MoveOps \X {"none"}
Next == VectorStep(Vecs, MaxCapPair, Values) \/ PairStep
Spec == Init /\ [][Next]_vars

\* two vectors, every mutator; the copies that return are recorded
InitCopy == Start /\ watch = CopyOps \X {"none"}
SpecCopy == InitCopy /\ [][Next]_vars

\* two vectors, every mutator; the copy assignments that throw are recorded
InitFail == Start /\ watch = {<<"operator=(const&)", "bad_alloc">>}
SpecFail == InitFail /\ [][Next]_vars

\* one vector, every call recorded
InitOne == Start /\ watch = VectorOps \X Excs
NextOne == VectorStep({"a"}, MaxCap, Values) \/ ReadStep({"a"}, MaxCap)
SpecOne == InitOne /\ [][NextOne]_vars

\* vectors and free-standing buffer owners; who owns which block does not depend
\* on the element values, so the elements are of a class type and all Default
InitOwn == Start /\ elemKind = "class" /\ watch = {<<"ArrayPtr::Release", "none">>}
NextOwn == VectorStep(Vecs, MaxCapPair, {Default}) \/ PairStep \/ PtrStep
SpecOwn == InitOwn /\ [][NextOwn]_vars

\* two vectors, each built and changed on its own, and every comparison; the
\* calls of operator< are recorded
InitCmp == Start /\ watch = {<<"operator<", "none">>}
NextCmp == VectorStep(Vecs, MaxCapPair, Values) \/ CompareStep
SpecCmp == InitCmp /\ [][NextCmp]_vars

\* two vectors, every mutator; the swaps are recorded
InitSwap == Start /\ watch = {<<"swap", "none">>}
SpecSwap == InitSwap /\ [][Next]_vars

-----------------------------------------------------------------------------
(* The claims *)

Alive == {v \in Vecs : vec[v].alive}

\* C1: in every reachable state, whatever constructors, mutators, swaps, copies
\* and moves led to it, every vector (the one operated on, the source of a move,
\* the other side of a swap) has GetSize() <= GetCapacity().
C1_SizeWithinCapacity == \A v \in Alive : GetSize(v) <= GetCapacity(v)

\* a move assignment has just emptied its source and left the target with spare
\* capacity
C1_Witness ==
    /\ last.op = "operator=(&&)"
    /\ last.v # last.o
    /\ vec[last.v].size = 1
    /\ vec[last.v].cap = 2
    /\ vec[last.o].size = 0
    /\ vec[last.o].cap = 0

\* the ArrayPtr objects and vectors that hold block b
Owners(b) ==
    {v \in Vecs : vec[v].alive /\ vec[v].items = b}
        \cup {p \in Ptrs : ptr[p].alive /\ ptr[p].raw = b}

AllDestroyed == (\A v \in Vecs : ~vec[v].alive) /\ (\A p \in Ptrs : ~ptr[p].alive)

\* C2: every block has at most one owner at any time, no block is deleted twice,
\* and once every vector and ArrayPtr is destroyed the only blocks still
\* allocated are those Release() handed to the caller.
C2_ExclusiveOwnership ==
    /\ \A b \in Blocks : Cardinality(Owners(b)) <= 1
    /\ "double_delete" \notin mem.fault
    /\ AllDestroyed => \A b \in Blocks : mem.heap[b].st = "live" => b \in raw

\* everything is destroyed; one released block is with the caller, the others
\* have been deallocated
C2_Witness ==
    /\ AllDestroyed
    /\ Cardinality(raw) = 1
    /\ \A b \in Blocks : mem.heap[b].st = "live" <=> b \in raw

\* the smallest power of two that is >= n, from p upwards
RECURSIVE PowerOfTwoFrom(_, _)
PowerOfTwoFrom(n, p) == IF p >= n THEN p ELSE PowerOfTwoFrom(n, 2 * p)
DoublingCapacity(n) == IF n = 0 THEN 0 ELSE PowerOfTwoFrom(n, 1)

\* C3: after N PushBack calls on a default-constructed vector the size is N, the
\* elements are the pushed values in push order, and the capacity is 0 for
\* N = 0 and otherwise the smallest power of two >= N.
C3_PushBackDoubling ==
    \A v \in Alive :
        hist[v].pure =>
            /\ GetSize(v) = Len(hist[v].pushed)
            /\ Contents(v) = hist[v].pushed
            /\ GetCapacity(v) = DoublingCapacity(Len(hist[v].pushed))

\* three values pushed, the third one after the growth from 2 to 4
C3_Witness ==
    /\ hist["a"].pure
    /\ hist["a"].pushed = <<1, 0, 1>>
    /\ last.op = "EmplaceBack"
    /\ GetCapacity("a") = 4

\* s with x inserted before position k (0-based)
InsertAt(s, k, x) == SubSeq(s, 1, k) \o <<x>> \o SubSeq(s, k + 1, Len(s))
\* s without the element at position k (0-based)
RemoveAt(s, k) == SubSeq(s, 1, k) \o SubSeq(s, k + 2, Len(s))

\* C4: Insert(begin() + k, x), 0 <= k <= size, x not an element of the vector,
\* leaves s[0..k), x, s[k..n), size n + 1, and returns begin() + k of the buffer
\* the vector then owns, whether it reallocates or shifts in place.
C4_InsertPlacesValue ==
    \A v \in Alive : \A k \in 0..GetSize(v), x \in Values, fail \in BOOLEAN :
        LET r == Insert(v, k, x, fail) IN
        r.exc = "none" =>
            /\ ContentsOf(r.mem, r.vec[v]) = InsertAt(Contents(v), k, x)
            /\ r.vec[v].size = GetSize(v) + 1
            /\ r.retp = r.vec[v].items
            /\ r.reti = k

\* an insertion in the middle has just shifted a suffix in place
C4_Witness ==
    /\ last.op = "Emplace"
    /\ last.reti = 1
    /\ GetSize("a") = 3
    /\ GetCapacity("a") = 3
    /\ Contents("a") = <<0, 1, 1>>

\* C5: Erase(begin() + k), 0 <= k < size, leaves s[0..k), s[k+1..n), size n - 1,
\* the capacity unchanged, and returns begin() + k.
C5_EraseShiftsLeft ==
    \A v \in Alive : \A k \in 0..(GetSize(v) - 1) :
        LET r == Erase(v, k) IN
        /\ r.exc = "none"
        /\ ContentsOf(r.mem, r.vec[v]) = RemoveAt(Contents(v), k)
        /\ r.vec[v].size = GetSize(v) - 1
        /\ r.vec[v].cap = GetCapacity(v)
        /\ r.retp = r.vec[v].items
        /\ r.reti = k

\* the middle one of three elements has just been erased
C5_Witness ==
    /\ last.op = "Erase"
    /\ last.reti = 1
    /\ GetSize("a") = 2
    /\ GetCapacity("a") = 3
    /\ Contents("a") = <<1, 0>>

\* C6: At(i) throws out_of_range exactly when i >= size, also for the allocated
\* positions in [size, capacity); otherwise it returns the element at i; either
\* way the vector and its elements are unchanged.
C6_AtChecksBounds ==
    \A v \in Alive : \A i \in 0..(MaxCap + 1) :
        LET r == At(v, i) IN
        /\ (r.exc = "out_of_range") <=> (i >= GetSize(v))
        /\ i < GetSize(v) =>
              /\ r.exc = "none"
              /\ Load(r.mem, r.retp, r.reti) = Contents(v)[i + 1]
        /\ r.vec = vec
        /\ r.mem = mem

\* At has just thrown on a vector that has allocated slots beyond its size
C6_Witness ==
    /\ last.op = "At"
    /\ last.exc = "out_of_range"
    /\ GetSize("a") = 1
    /\ GetCapacity("a") = 3

\* the call ended in std::bad_alloc and changed neither a vector nor the heap
Rejected(r) == r.exc = "bad_alloc" /\ r.vec = vec /\ r.mem = mem

\* C7: when the allocation of the new buffer fails inside Reserve, Resize,
\* PushBack/EmplaceBack, Insert/Emplace or copy assignment, std::bad_alloc
\* reaches the caller and size, capacity, elements and buffer are as before.
C7_FailedAllocationChangesNothing ==
    \A v \in Alive : \A fail \in BOOLEAN :
        /\ \A n \in 0..(MaxCapPair + 1) :
              (n > GetCapacity(v) /\ AllocFails(mem, n, fail)) =>
                  /\ Rejected(Reserve(v, n, fail))
                  /\ Rejected(Resize(v, n, fail))
        /\ (GetSize(v) >= GetCapacity(v)
                /\ AllocFails(mem, NewCapacity(GetCapacity(v)), fail)) =>
              \A x \in Values :
                  /\ Rejected(PushBack(v, x, fail))
                  /\ Rejected(EmplaceBack(v, x, fail))
                  /\ \A k \in 0..GetSize(v) :
                        /\ Rejected(Insert(v, k, x, fail))
                        /\ Rejected(Emplace(v, k, x, fail))
        /\ \A o \in Alive \ {v} :
              AllocFails(mem, GetSize(o), fail) => Rejected(CopyAssign(v, o, fail))

\* a copy assignment has just failed; the target still holds its two elements
C7_Witness ==
    /\ last.op = "operator=(const&)"
    /\ last.exc = "bad_alloc"
    /\ last.v # last.o
    /\ vec[last.v].size = 2
    /\ vec[last.v].items # Null
    /\ vec[last.o].size = 1

\* P holds of the outcome of every mutating operation on the one vector v
EachMutation(v, P(_)) ==
    /\ P(PopBack(v))
    /\ P(Clear(v))
    /\ \A k \in 0..(GetSize(v) - 1) :
          /\ P(Erase(v, k))
          /\ \A x \in Values : P(SetAt(v, k, x))
    /\ \A n \in 0..(MaxCapPair + 1), fail \in BOOLEAN :
          Refusable(fail, n > GetCapacity(v)) =>
              /\ P(Resize(v, n, fail))
              /\ P(Reserve(v, n, fail))
    /\ \A x \in Values, fail \in BOOLEAN :
          Refusable(fail, GetSize(v) >= GetCapacity(v)) =>
              /\ P(PushBack(v, x, fail))
              /\ \A k \in 0..GetSize(v) : P(Insert(v, k, x, fail))

\* outcome r leaves vector o as it is: size, capacity, buffer and live elements
Untouched(r, o) == r.vec[o] = vec[o] /\ ContentsOf(r.mem, r.vec[o]) = Contents(o)

\* outcome r has made v a copy of o, in a buffer of its own
CopyOf(r, v, o) ==
    r.exc = "none" =>
        /\ r.vec[v].items = Null \/ r.vec[v].items # r.vec[o].items
        /\ ContentsOf(r.mem, r.vec[v]) = Contents(o)
        /\ Untouched(r, o)

\* C8: a copy (construction or assignment) does not share the source's buffer,
\* and every mutating operation on one vector leaves the size, the capacity and
\* the live elements of the other unchanged.
C8_CopyIsolation ==
    \A o \in Alive : \A v \in Vecs \ {o} :
        /\ ~vec[v].alive =>
              \A fail \in BOOLEAN : CopyOf(CopyCtor(v, o, fail), v, o)
        /\ vec[v].alive =>
              /\ \A fail \in BOOLEAN : CopyOf(CopyAssign(v, o, fail), v, o)
              /\ LET Keeps(r) == Untouched(r, o) IN EachMutation(v, Keeps)

\* a copy assignment has just made two vectors with equal elements in two buffers
C8_Witness ==
    /\ last.op = "operator=(const&)"
    /\ last.exc = "none"
    /\ last.v # last.o
    /\ Contents(last.v) = <<1, 0>>
    /\ Contents(last.o) = <<1, 0>>
    /\ vec[last.v].items # vec[last.o].items

\* s cut or extended with default values to length n
Resized(s, n) == [i \in 1..n |-> IF i <= Len(s) THEN s[i] ELSE Default]

\* C9: Resize(n) keeps the elements at the positions below min(size, n) and
\* leaves the default value, not what the slot held before, at every newly
\* exposed position in [old size, n), in place or by reallocation; so Resize(M),
\* M <= N, followed by Resize(N) keeps [0, M) and has defaults in [M, N).
C9_ResizeExposesDefaults ==
    \A v \in Alive : \A n \in 0..(MaxCap + 1), fail \in BOOLEAN :
        LET r == Resize(v, n, fail) IN
        r.exc = "none" =>
            /\ r.vec[v].size = n
            /\ ContentsOf(r.mem, r.vec[v]) = Resized(Contents(v), n)

\* Resize has just left <<1, 0, 0>> in a buffer whose next slot holds an old value
C9_Witness ==
    /\ last.op = "Resize"
    /\ GetCapacity("a") = 4
    /\ Contents("a") = <<1, 0, 0>>
    /\ Load(mem, vec["a"].items, 3) = 1

\* outcome r has moved o into v and left o empty
MovedInto(r, v, o) ==
    /\ r.exc = "none"
    /\ r.vec[v].size = GetSize(o)
    /\ r.vec[v].cap = GetCapacity(o)
    /\ ContentsOf(r.mem, r.vec[v]) = Contents(o)
    /\ r.vec[o] = Vector(0, 0, Null)

\* C10: a move (construction or assignment, target distinct from source) gives
\* the target the size, capacity and elements of the source and leaves the source
\* with size 0, capacity 0 and no buffer; a PushBack on the source right after
\* makes it a vector of size 1 and capacity 1 and leaves the target's buffer alone.
C10_MoveEmptiesSource ==
    /\ \A o \in Alive : \A v \in Vecs \ {o} :
          /\ ~vec[v].alive => MovedInto(MoveCtor(v, o), v, o)
          /\ vec[v].alive => MovedInto(MoveAssign(v, o), v, o)
    /\ (last.op \in MoveOps /\ last.v # last.o) =>
          \A x \in Values, fail \in BOOLEAN :
              LET r == PushBack(last.o, x, fail)
                  t == vec[last.v]
              IN  r.exc = "none" =>
                      /\ r.vec[last.o].size = 1
                      /\ r.vec[last.o].cap = 1
                      /\ ContentsOf(r.mem, r.vec[last.o]) = <<x>>
                      /\ r.vec[last.o].items # t.items
                      /\ r.vec[last.v] = t
                      /\ t.items # Null => r.mem.heap[t.items] = mem.heap[t.items]

\* a move assignment has just handed two elements over and emptied its source
C10_Witness ==
    /\ last.op = "operator=(&&)"
    /\ last.v # last.o
    /\ Contents(last.v) = <<0, 1>>
    /\ vec[last.o] = Vector(0, 0, Null)

\* s is lexicographically smaller than t: they agree on the first k positions
\* and there s ends and t does not, or s has the smaller element
LexLess(s, t) ==
    \E k \in 0..Len(s) :
        /\ k <= Len(t)
        /\ SubSeq(s, 1, k) = SubSeq(t, 1, k)
        /\ \/ k = Len(s) /\ k < Len(t)
           \/ k < Len(s) /\ k < Len(t) /\ s[k + 1] < t[k + 1]

\* C11: a == b iff same size and equal elements at every position, whatever
\* the capacities; a < b iff a is lexicographically smaller (a proper prefix is
\* smaller); exactly one of a < b, a == b, b < a; and !=, <=, >, >= are
\* not(==), (< or ==), the mirrored <, not(<).
C11_ComparisonsAreLexicographic ==
    \A a \in Alive : \A b \in Alive :
        /\ OperatorEq(a, b) <=> Contents(a) = Contents(b)
        /\ OperatorLt(a, b) <=> LexLess(Contents(a), Contents(b))
        /\ Cardinality({r \in {"lt", "eq", "gt"} :
               \/ r = "lt" /\ OperatorLt(a, b)
               \/ r = "eq" /\ OperatorEq(a, b)
               \/ r = "gt" /\ OperatorLt(b, a)}) = 1
        /\ OperatorNe(a, b) <=> ~OperatorEq(a, b)
        /\ OperatorLe(a, b) <=> (OperatorLt(a, b) \/ OperatorEq(a, b))
        /\ OperatorGt(a, b) <=> OperatorLt(b, a)
        /\ OperatorGe(a, b) <=> ~OperatorLt(a, b)

\* operator< has just compared a vector with one that has the same elements and
\* one more, in a buffer of another capacity
C11_Witness ==
    /\ last.op = "operator<"
    /\ last.v # last.o
    /\ Contents(last.v) = <<1>>
    /\ Contents(last.o) = <<1, 0>>
    /\ GetCapacity(last.v) = 2
    /\ OperatorLt(last.v, last.o)
    /\ ~OperatorEq(last.v, last.o)

\* C12: a.swap(b) leaves a with the size, capacity, buffer and live elements b
\* had and b with those a had, and leaves the heap as it was: no allocation, no
\* deallocation, no element written.  The state after a swap is again a state
\* in which this holds, so a second swap restores both vectors.
C12_SwapExchanges ==
    \A a \in Alive : \A b \in Alive :
        LET r == Swap(a, b) IN
        /\ r.exc = "none"
        /\ r.vec[a] = vec[b]
        /\ r.vec[b] = vec[a]
        /\ ContentsOf(r.mem, r.vec[a]) = Contents(b)
        /\ ContentsOf(r.mem, r.vec[b]) = Contents(a)
        /\ r.mem = mem
        /\ \A c \in Vecs \ {a, b} : r.vec[c] = vec[c]

\* a swap has just exchanged a one-element vector with spare capacity and a
\* two-element vector
C12_Witness ==
    /\ last.op = "swap"
    /\ last.v # last.o
    /\ Contents(last.v) = <<0, 1>>
    /\ Contents(last.o) = <<1>>
    /\ GetCapacity(last.o) = 2
    /\ vec[last.v].items # vec[last.o].items

\* block p is allocated and has n slots
LiveBlock(m, p, n) == p # Null /\ m.heap[p].st = "live" /\ Len(m.heap[p].data) = n

\* C13: Reserve(n) leaves the size and the live elements as they are; for
\* n <= capacity it changes nothing at all, otherwise the capacity becomes
\* exactly n, in a new buffer of n slots, and the old buffer is released.
C13_ReserveKeepsElements ==
    \A v \in Alive : \A n \in 0..(MaxCap + 1), fail \in BOOLEAN :
        LET r == Reserve(v, n, fail)
            old == vec[v].items
        IN  r.exc = "none" =>
                /\ r.vec[v].size = GetSize(v)
                /\ ContentsOf(r.mem, r.vec[v]) = Contents(v)
                /\ n <= GetCapacity(v) => r.vec = vec /\ r.mem = mem
                /\ n > GetCapacity(v) =>
                      /\ r.vec[v].cap = n
                      /\ r.vec[v].items # old
                      /\ LiveBlock(r.mem, r.vec[v].items, n)
                      /\ old # Null => r.mem.heap[old].st = "free"
                      /\ r.mem.fault = mem.fault

\* Reserve has just returned on a vector of two elements with capacity 4
C13_Witness ==
    /\ last.op = "Reserve"
    /\ last.exc = "none"
    /\ GetCapacity("a") = 4
    /\ Contents("a") = <<1, 0>>
    /\ LiveBlock(mem, vec["a"].items, 4)

\* the slots of v's buffer at the positions in [size, capacity)
DeadSlots(v) ==
    [i \in (GetSize(v) + 1)..GetCapacity(v) |-> Load(mem, vec[v].items, i - 1)]

\* C14: what the slots in [size, capacity) hold is never observed.  Every live
\* element is a value that was written (never the indeterminate content of a
\* fresh slot), no access leaves a buffer, a reference returned by At points
\* below size, and the live elements after PushBack, Insert and Resize are a
\* function of the live elements before and of the arguments alone: a position
\* that becomes live holds the new or the default value, whatever the slot held.
C14_NoStaleValueObserved ==
    \A v \in Alive :
        /\ \A i \in 1..GetSize(v) : Contents(v)[i] \in Values
        /\ mem.fault = {}
        /\ \A i \in 0..(MaxCap + 1) :
              LET r == At(v, i) IN r.exc = "none" => r.reti < GetSize(v)
        /\ \A x \in Values, fail \in BOOLEAN :
              /\ LET r == PushBack(v, x, fail) IN
                 r.exc = "none" =>
                     ContentsOf(r.mem, r.vec[v]) = Append(Contents(v), x)
              /\ \A k \in 0..GetSize(v) :
                    LET r == Insert(v, k, x, fail) IN
                    r.exc = "none" =>
                        ContentsOf(r.mem, r.vec[v]) = InsertAt(Contents(v), k, x)
        /\ \A n \in 0..(MaxCap + 1), fail \in BOOLEAN :
              LET r == Resize(v, n, fail) IN
              r.exc = "none" =>
                  ContentsOf(r.mem, r.vec[v]) = Resized(Contents(v), n)

\* PushBack has just written 0 over a slot that held an old element; the next
\* slot still holds an old element and the last one was never written
C14_Witness ==
    /\ last.op = "EmplaceBack"
    /\ elemKind = "trivial"
    /\ Contents("a") = <<1, 0>>
    /\ DeadSlots("a") = [i \in 3..4 |-> IF i = 3 THEN 1 ELSE Indet]

\* outcome r of an append or insertion into v followed the growth policy
GrewByPolicy(r, v) ==
    r.exc = "none" =>
        /\ GetSize(v) = GetCapacity(v) =>
              r.vec[v].cap = IF GetCapacity(v) = 0 THEN 1 ELSE 2 * GetCapacity(v)
        /\ GetSize(v) < GetCapacity(v) =>
              /\ r.vec[v].cap = GetCapacity(v)
              /\ r.vec[v].items = vec[v].items

\* C15: in every reachable state PushBack/EmplaceBack and Insert/Emplace change
\* the capacity only when size == capacity, then to 1 from 0 and to twice the
\* capacity otherwise; with size < capacity they keep capacity and buffer.  A
\* vector constructed with the Reserve(n) hint has size 0 and capacity n, so
\* its first n appends find size < capacity.
C15_GrowthOnlyWhenFull ==
    /\ \A v \in Alive : \A x \in Values, fail \in BOOLEAN :
          /\ GrewByPolicy(PushBack(v, x, fail), v)
          /\ GrewByPolicy(EmplaceBack(v, x, fail), v)
          /\ \A k \in 0..GetSize(v) :
                /\ GrewByPolicy(Insert(v, k, x, fail), v)
                /\ GrewByPolicy(Emplace(v, k, x, fail), v)
    /\ \A v \in Vecs \ Alive : \A n \in 0..(MaxCap + 1), fail \in BOOLEAN :
          LET r == ReserveCtor(v, n, fail) IN
          r.exc = "none" =>
              /\ r.vec[v].size = 0
              /\ r.vec[v].cap = n
              /\ n > 0 => LiveBlock(r.mem, r.vec[v].items, n)

\* an insertion has just left three elements in a buffer of four slots whose
\* last slot was never written
C15_Witness ==
    /\ last.op = "Emplace"
    /\ last.exc = "none"
    /\ elemKind = "trivial"
    /\ Contents("a") = <<1, 0, 1>>
    /\ GetCapacity("a") = 4
    /\ DeadSlots("a") = [i \in 4..4 |-> Indet]

\* outcome r has made v an exact-fit copy of o
ExactCopy(r, v, o) ==
    r.exc = "none" =>
        /\ r.vec[v].size = GetSize(o)
        /\ r.vec[v].cap = GetSize(o)
        /\ ContentsOf(r.mem, r.vec[v]) = Contents(o)
        /\ IF GetSize(o) = 0 THEN r.vec[v].items = Null
           ELSE LiveBlock(r.mem, r.vec[v].items, GetSize(o))

\* C16: a copy made by copy construction, and the target of a copy assignment
\* from a distinct source, has the size n of the source, its n live elements in
\* order, and capacity exactly n, whatever the capacity of the source and
\* whatever the target held before.
C16_CopyHasExactCapacity ==
    \A o \in Alive : \A v \in Vecs \ {o} : \A fail \in BOOLEAN :
        IF vec[v].alive THEN ExactCopy(CopyAssign(v, o, fail), v, o)
        ELSE ExactCopy(CopyCtor(v, o, fail), v, o)

\* a copy assignment has just replaced an empty vector by a copy with capacity 1
\* of a one-element source whose capacity is 2
C16_Witness ==
    /\ last.op = "operator=(const&)"
    /\ last.exc = "none"
    /\ last.v # last.o
    /\ Contents(last.v) = <<1>>
    /\ GetCapacity(last.v) = 1
    /\ Contents(last.o) = <<1>>
    /\ GetCapacity(last.o) = 2

\* C17: Clear() sets the size to 0 and leaves capacity, buffer and heap as they
\* are; on a vector that is already empty, such as one just cleared, it changes
\* nothing and raises no error.
C17_ClearKeepsBuffer ==
    \A v \in Alive :
        LET r == Clear(v) IN
        /\ r.exc = "none"
        /\ r.vec[v] = Vector(0, GetCapacity(v), vec[v].items)
        /\ r.mem = mem
        /\ \A o \in Vecs \ {v} : r.vec[o] = vec[o]
        /\ GetSize(v) = 0 => r.vec = vec

\* Clear has just emptied a vector whose three slots still hold the elements
C17_Witness ==
    /\ last.op = "Clear"
    /\ GetSize("a") = 0
    /\ GetCapacity("a") = 3
    /\ DeadSlots("a") = <<1, 0, 1>>

\* C18: PopBack() on a vector of size n > 0 leaves size n - 1, the first n - 1
\* elements and the capacity; on an empty vector it raises no error and leaves
\* size 0, not a size wrapped below 0, and the capacity.
C18_PopBackStopsAtEmpty ==
    \A v \in Alive :
        LET r == PopBack(v) IN
        /\ r.exc = "none"
        /\ r.vec[v].cap = GetCapacity(v)
        /\ r.vec[v].items = vec[v].items
        /\ r.mem = mem
        /\ GetSize(v) > 0 =>
              /\ r.vec[v].size = GetSize(v) - 1
              /\ ContentsOf(r.mem, r.vec[v]) = SubSeq(Contents(v), 1, GetSize(v) - 1)
        /\ GetSize(v) = 0 => r.vec = vec

\* PopBack has just returned on an empty vector that has a buffer
C18_Witness ==
    /\ last.op = "PopBack"
    /\ last.exc = "none"
    /\ GetSize("a") = 0
    /\ GetCapacity("a") = 2
    /\ DeadSlots("a") = <<1, 1>>

\* one vector, every mutator and the calls that pass one of its own elements;
\* those that return are recorded
SelfRefOps == {"PushBack(v[i])", "Insert(pos,v[i])"}
InitRef == Start /\ watch = SelfRefOps \X {"none"}
NextRef == VectorStep({"a"}, MaxCap, Values) \/ SelfRefStep({"a"}, MaxCap)
SpecRef == InitRef /\ [][NextRef]_vars

\* the elements of v with x put before position k (0-based)
WithInserted(v, k, x) == InsertAt(Contents(v), k, x)

\* C19: PushBack(v[i]) with i < size appends a copy of the value v[i] had before
\* the call, also when size = capacity and the call reallocates, and never reads
\* the argument from a buffer that has been released.
C19_SelfPushBackCopiesElement ==
    \A v \in Alive, i \in 0..MaxCap, u \in DanglingValues, fail \in BOOLEAN :
        i < GetSize(v) =>
            LET r == PushBackRef(v, i, u, fail) IN
            r.exc = "none" =>
                /\ ContentsOf(r.mem, r.vec[v]) = Append(Contents(v), Contents(v)[i + 1])
                /\ r.mem.fault = mem.fault

\* C20: Insert(begin() + k, v[i]) with size < capacity, k <= size and i < size
\* puts at position k the value v[i] had before the call, whatever the right
\* shift of the suffix did to slot i.
C20_SelfInsertCopiesElement ==
    \A v \in Alive, k \in 0..MaxCap, i \in 0..MaxCap, u \in DanglingValues :
        (GetSize(v) < GetCapacity(v) /\ k <= GetSize(v) /\ i < GetSize(v)) =>
            LET r == InsertRef(v, k, i, u, FALSE) IN
            /\ r.exc = "none"
            /\ ContentsOf(r.mem, r.vec[v]) = WithInserted(v, k, Contents(v)[i + 1])

====
